---- MODULE Spec2Model ----
(***************************************************************************)
(* MySeedlinkClient (sl2influxdb/seedlink.py): stream selection against    *)
(* the server catalog, the per-packet pipeline of on_data (selection       *)
(* filter, latency gate, resampling, bounded queue hand-off, shutdown      *)
(* polls) and the state-file handling of __init__ and stop_seedlink.       *)
(*                                                                         *)
(* Strings that the code takes apart or joins (codes, regular expressions, *)
(* channel ids) are sequences of one-character strings.                    *)
(***************************************************************************)
EXTENDS Integers, Sequences, FiniteSets, TLC

\* ---------------------------------------------------------------- bounds
\* results (packets and errors) the transport's collect() returns in one session
MaxPackets == 3
\* capacity of the shared queue q
QueueMaxSize == 1

\* ------------------------------------------------------------- constants
\* self.SL_PACKET_TIME_MAX = 60. * 30.
SL_PACKET_TIME_MAX == 1800
\* self.resample_rate = 10.
RESAMPLE_RATE == 10
\* sampling rate of the traces the server sends
NativeRate == 100

\* ---------------------------------------------------------------- inputs
\* The parsed stream catalog (get_stream_info): stations in document order,
\* each with its streams in document order.
Catalog ==
  << [network |-> <<"X","X">>, name |-> <<"A","A","A">>,
      channel |-> << [seedname |-> <<"S","H","Z">>, location |-> <<"0","0">>],
                     [seedname |-> <<"S","H","Z">>, location |-> <<"1","0">>],
                     [seedname |-> <<"B","H","Z">>, location |-> <<"0","0">>] >>] >>

\* Selection patterns (network, station, channel, location).
PatSHx00 == << <<"X","X">>, <<"A","A","A">>, <<"S","H",".">>, <<"0","0">> >>
PatSHZany == << <<"X","X">>, <<"A","A","A">>, <<"S","H","Z">>, <<>> >>
PatxxZ00 == << <<"X","X">>, <<"A">>, <<".",".","Z">>, <<"0","0">> >>
PatBad == << <<"X","X">>, <<"A","A","A">>, <<"(">>, <<"0","0">> >>

PatBadLoc == << <<"X","X">>, <<"A","A","A">>, <<"S","H","Z">>, <<"(">> >>
PatOtherNet == << <<"Y","Y">>, <<>>, <<>>, <<>> >>

Patterns == {PatSHx00, PatSHZany, PatxxZ00, PatBad, PatBadLoc, PatOtherNet}

\* patterns in one `streams` argument
MaxPatterns == 2

PatternLists == UNION { [1..n -> Patterns] : n \in 0..MaxPatterns }

\* The `streams` argument lists the constructor is run with.
StreamsChoices ==
  { <<>>, <<PatSHx00>>, <<PatSHZany>>, <<PatSHx00, PatxxZ00>>, <<PatBad, PatSHx00>> }

\* now - endtime of a received trace, in seconds: at the threshold and past it
Latencies == {SL_PACKET_TIME_MAX, SL_PACKET_TIME_MAX + 1}

VARIABLES
  pc,                        \* position of the producer thread
  streams, recover,          \* constructor arguments
  infoLevel,                 \* logger.getEffectiveLevel() <= logging.INFO
  selected_streams,          \* self.selected_streams (a list)
  subscriptions,             \* select_stream(net, sta, chan) requests issued
  time_max,                  \* self.SL_PACKET_TIME_MAX
  resample_rate,             \* self.resample_rate
  show_too_old_packet_msg,   \* self.show_too_old_packet_msg (a dict)
  conn_statefile,            \* self.conn.statefile: "None" or "statefile"
  q,                         \* the shared queue
  shutdown_event,            \* the shared shutdown flag
  trace,                     \* the trace on_data is working on
  nrecv,                     \* traces delivered so far
  nerrors,                   \* seedlink errors logged by on_seedlink_error
  skipped,                   \* traces returned because their id is not selected
  shutdownAt,                \* whether a trace was in flight when the flag was set
  resampled, putres,         \* outcome of the current trace's resample / put
  passed, attempts,          \* traces past the gate / q.put calls made
  enq, dropped,              \* seq numbers enqueued (in order) / dropped on Full
  log,                       \* gate transition messages logged
  lastClass,                 \* classification of each channel's previous trace
  calls,                     \* calls made on the connection, in order
  endCause                   \* why the receive loop ended

vars == << pc, streams, recover, infoLevel, selected_streams, subscriptions,
           time_max, resample_rate, show_too_old_packet_msg, conn_statefile,
           q, shutdown_event, trace, nrecv, resampled, putres, passed,
           attempts, enq, dropped, log, lastClass, calls, endCause, skipped,
           shutdownAt, nerrors >>

NoTrace == [seq |-> 0, id |-> <<>>, latency |-> 0, sampling_rate |-> 0]

Range(s) == { s[i] : i \in 1..Len(s) }

\* ------------------------------------------------------ stream selection
\* re.compile: fails on an unbalanced parenthesis
Compiles(re) == \A i \in 1..Len(re) : re[i] # "("

\* compiled.match(s): the expression matches a prefix of s
Match(re, s) ==
  /\ Len(re) <= Len(s)
  /\ \A i \in 1..Len(re) : re[i] = "." \/ re[i] = s[i]

\* ".".join([net, sta, loc, chan])
DottedId(net, sta, loc, chan) == net \o <<".">> \o sta \o <<".">> \o loc \o <<".">> \o chan

\* add_stream on acc = [sel, subs]
add_stream(acc, net, sta, chan, loc) ==
  [sel  |-> Append(acc.sel, DottedId(net, sta, loc, chan)),
   subs |-> Append(acc.subs, <<net, sta, chan>>)]

RECURSIVE ChannelLoop(_, _, _, _, _)
ChannelLoop(acc, s, chans, chan_re, loc_re) ==
  IF chans = <<>> THEN acc
  ELSE LET c == Head(chans)
           acc2 == IF Match(chan_re, c.seedname) /\ Match(loc_re, c.location)
                   THEN add_stream(acc, s.network, s.name, c.seedname, c.location)
                   ELSE acc
       IN ChannelLoop(acc2, s, Tail(chans), chan_re, loc_re)

RECURSIVE StationLoop(_, _, _)
StationLoop(acc, info, pattern) ==
  IF info = <<>> THEN acc
  ELSE LET s == Head(info)
           acc2 == IF ~Match(pattern[1], s.network) \/ ~Match(pattern[2], s.name)
                   THEN acc
                   ELSE ChannelLoop(acc, s, s.channel, pattern[3], pattern[4])
       IN StationLoop(acc2, Tail(info), pattern)

\* select_stream_re: [ok, acc]
select_stream_re(acc, pattern) ==
  IF \E i \in 1..4 : ~Compiles(pattern[i])
  THEN [ok |-> FALSE, acc |-> acc]
  ELSE [ok |-> TRUE, acc |-> StationLoop(acc, Catalog, pattern)]

\* a pattern loop that a pattern in error ends
RECURSIVE SelectAllAbortOnError(_, _)
SelectAllAbortOnError(acc, pats) ==
  IF pats = <<>> THEN acc
  ELSE IF select_stream_re(acc, Head(pats)).ok
       THEN SelectAllAbortOnError(select_stream_re(acc, Head(pats)).acc, Tail(pats))
       ELSE acc

\* for patterns in streams: select_stream_re(patterns)
RECURSIVE SelectAll(_, _)
SelectAll(acc, pats) ==
  IF pats = <<>> THEN acc
  ELSE SelectAll(select_stream_re(acc, Head(pats)).acc, Tail(pats))

\* the streams of the catalog: << station index, stream index >>
CatalogStreams ==
  UNION { { <<i, j>> : j \in 1..Len(Catalog[i].channel) } : i \in 1..Len(Catalog) }

\* trace.get_id() of a stream of the catalog
StreamId(ij) ==
  DottedId(Catalog[ij[1]].network, Catalog[ij[1]].name,
           Catalog[ij[1]].channel[ij[2]].location, Catalog[ij[1]].channel[ij[2]].seedname)

CatalogIds == { StreamId(ij) : ij \in CatalogStreams }

\* ids of the traces the server sends for the subscriptions: a subscription
\* names network, station and channel, so every location of it is sent
Deliverable(subs) ==
  { StreamId(ij) :
      ij \in { kl \in CatalogStreams :
                 << Catalog[kl[1]].network, Catalog[kl[1]].name,
                    Catalog[kl[1]].channel[kl[2]].seedname >> \in Range(subs) } }

\* ------------------------------------------------------------------ Init
\* the state before the constructor runs, whatever the `streams` argument
InitFields ==
  /\ pc = "init"
  /\ recover \in BOOLEAN
  /\ infoLevel \in BOOLEAN
  /\ selected_streams = <<>>
  /\ subscriptions = <<>>
  /\ time_max = SL_PACKET_TIME_MAX
  /\ resample_rate = RESAMPLE_RATE
  /\ show_too_old_packet_msg = [c \in {} |-> TRUE]
  /\ conn_statefile = "None"
  /\ q = <<>>
  /\ shutdown_event = FALSE
  /\ trace = NoTrace
  /\ nrecv = 0
  /\ nerrors = 0
  /\ resampled = "none"
  /\ putres = "none"
  /\ passed = 0
  /\ attempts = 0
  /\ enq = <<>>
  /\ dropped = {}
  /\ log = <<>>
  /\ lastClass = [c \in CatalogIds |-> "none"]
  /\ calls = <<>>
  /\ endCause = "none"
  /\ skipped = 0
  /\ shutdownAt = "none"

Init ==
  /\ streams \in StreamsChoices
  /\ InitFields

\* a constructor that leaves the state file set on the connection
InitCallsKeepStatefile(rec, restoreOk) ==
  IF rec
  THEN << "set_statefile",
          IF restoreOk THEN "recover_state" ELSE "recover_state_failed" >>
  ELSE << >>

\* ------------------------------------------------------------- __init__
\* lines 58-67: what the constructor does with the state file
InitCalls(rec, restoreOk) ==
  IF rec
  THEN << "set_statefile",
          IF restoreOk THEN "recover_state" ELSE "recover_state_failed",
          "unset_statefile" >>
  ELSE << >>

\* a constructor whose failed restore skips the reset of conn.statefile
StatefileAfterInitFailureSkipsReset(rec, restoreOk) ==
  IF rec /\ ~restoreOk THEN "statefile" ELSE "None"

\* a constructor that never resets conn.statefile
StatefileAfterInitKept(rec, restoreOk) == IF rec THEN "statefile" ELSE "None"

\* conn.statefile when __init__ returns: reset at line 67 with recovery,
\* never set without
StatefileAfterInit(rec, restoreOk) == IF rec THEN "None" ELSE "None"

\* MySeedlinkClient(server, streams, statefile, recover)
Construct ==
  /\ pc = "init"
  /\ LET acc == SelectAll([sel |-> <<>>, subs |-> <<>>], streams)
     IN /\ selected_streams' = acc.sel
        /\ subscriptions' = acc.subs
  /\ \E restoreOk \in (IF recover THEN BOOLEAN ELSE {TRUE}) :
       /\ calls' = InitCalls(recover, restoreOk)
       /\ conn_statefile' = StatefileAfterInit(recover, restoreOk)
  /\ time_max' = SL_PACKET_TIME_MAX
  /\ resample_rate' = RESAMPLE_RATE
  /\ show_too_old_packet_msg' = [c \in {} |-> TRUE]
  /\ pc' = "subscribed"
  /\ UNCHANGED << streams, recover, infoLevel, q, shutdown_event, trace, nrecv,
                  resampled, putres, passed, attempts, enq, dropped, log,
                  lastClass, endCause,
                  skipped, shutdownAt, nerrors >>

\* The embedding program switches a feature off before the loop starts
\* (max packet age 0: the gate is off; resample rate 0: no resampling).
Configure ==
  /\ pc = "subscribed"
  /\ \E tm \in {0, SL_PACKET_TIME_MAX}, rr \in {0, RESAMPLE_RATE} :
       /\ << tm, rr >> # << time_max, resample_rate >>
       /\ time_max' = tm
       /\ resample_rate' = rr
  /\ UNCHANGED << pc, streams, recover, infoLevel, selected_streams, subscriptions,
                  show_too_old_packet_msg, conn_statefile, q, shutdown_event,
                  trace, nrecv, resampled, putres, passed, attempts, enq,
                  dropped, log, lastClass, calls, endCause,
                  skipped, shutdownAt, nerrors >>

\* client.run(): the receive loop starts
Run ==
  /\ pc = "subscribed"
  /\ pc' = "idle"
  /\ calls' = Append(calls, "run")
  /\ UNCHANGED << streams, recover, infoLevel, selected_streams, subscriptions,
                  time_max, resample_rate, show_too_old_packet_msg,
                  conn_statefile, q, shutdown_event, trace, nrecv, resampled,
                  putres, passed, attempts, enq, dropped, log, lastClass,
                  endCause,
                  skipped, shutdownAt, nerrors >>

\* a stop_seedlink that exits without closing the connection
StopCallsNoClose(saveOk) ==
  << "set_statefile", IF saveOk THEN "save_state" ELSE "save_state_failed",
     "exit" >>

\* a stop_seedlink that a failed save aborts
StopCallsFailureAborts(saveOk) ==
  IF saveOk THEN << "set_statefile", "save_state", "close", "exit" >>
  ELSE << "set_statefile", "save_state_failed" >>

\* --------------------------------------------------------- stop_seedlink
\* lines 191-199: the calls stop_seedlink makes on the connection
StopCalls(saveOk) ==
  << "set_statefile", IF saveOk THEN "save_state" ELSE "save_state_failed",
     "close", "exit" >>

\* a stop_seedlink whose exit does not end the receive loop
stop_seedlinkReturns(cause) ==
  /\ \E saveOk \in BOOLEAN : calls' = calls \o StopCalls(saveOk)
  /\ UNCHANGED << trace, resampled, putres >>
  /\ conn_statefile' = "statefile"
  /\ endCause' = cause
  /\ pc' = "idle"

\* stop_seedlink(), entered from on_data (cause "signal") or at loop exit
stop_seedlink(cause) ==
  /\ \E saveOk \in BOOLEAN : calls' = calls \o StopCalls(saveOk)
  /\ UNCHANGED << trace, resampled, putres >>
  /\ conn_statefile' = "statefile"
  /\ endCause' = cause
  /\ pc' = "stopped"

\* a filter that compares network, station and channel but not location
IsSelectedAnyLocation(channel) == channel \in Deliverable(subscriptions)

\* ---------------------------------------------------------------- on_data
\* channel in self.selected_streams
IsSelected(channel) == channel \in Range(selected_streams)

\* a gate that also discards a trace exactly at the threshold
TooOldAtThreshold(latency) == time_max # 0 /\ latency >= time_max

\* self.SL_PACKET_TIME_MAX and latency > self.SL_PACKET_TIME_MAX
TooOld(latency) == time_max # 0 /\ latency > time_max

\* a gate that announces every discarded trace
ShowDisableAlways(channel) == TRUE

\* lines 142-143: the disable message is due
ShowDisable(channel) ==
  \/ channel \notin DOMAIN show_too_old_packet_msg
  \/ show_too_old_packet_msg[channel] = TRUE

\* a gate that takes a channel without an entry for a fresh one
ShowEnableOnlyAfterStale(channel) ==
  /\ channel \in DOMAIN show_too_old_packet_msg
  /\ show_too_old_packet_msg[channel] = FALSE

\* lines 159-160: the enable message is due
ShowEnable(channel) ==
  \/ channel \notin DOMAIN show_too_old_packet_msg
  \/ show_too_old_packet_msg[channel] = FALSE

\* an assignment that replaces the dict by the one entry
SetShowOnly(channel, v) == [c \in {channel} |-> v]

\* self.show_too_old_packet_msg[channel] = v
SetShow(channel, v) ==
  [c \in DOMAIN show_too_old_packet_msg \cup {channel} |->
     IF c = channel THEN v ELSE show_too_old_packet_msg[c]]

\* lines 128-130: the transport hands over a trace; it is returned at once
\* unless its id is selected
OnDataSelect ==
  /\ pc = "idle"
  /\ nrecv + nerrors < MaxPackets
  /\ \E id \in Deliverable(subscriptions), lat \in Latencies :
       IF IsSelected(id)
       THEN /\ trace' = [seq |-> nrecv + 1, id |-> id, latency |-> lat,
                         sampling_rate |-> NativeRate]
            /\ pc' = "gate"
       ELSE /\ trace' = NoTrace
            /\ pc' = "idle"
  /\ skipped' = IF pc' = "idle" THEN skipped + 1 ELSE skipped
  /\ nrecv' = nrecv + 1
  /\ resampled' = "none"
  /\ putres' = "none"
  /\ UNCHANGED << streams, recover, infoLevel, selected_streams, subscriptions,
                  time_max, resample_rate, show_too_old_packet_msg,
                  conn_statefile, q, shutdown_event, passed, attempts, enq,
                  dropped, log, lastClass, calls, endCause,
                  shutdownAt, nerrors >>

\* lines 132-149 and 157-165: the latency gate and its transition messages
OnDataGate ==
  /\ pc = "gate"
  /\ IF TooOld(trace.latency)
     THEN /\ IF infoLevel /\ ShowDisable(trace.id)
             THEN /\ log' = Append(log, << trace.id, "disable" >>)
                  /\ show_too_old_packet_msg' = SetShow(trace.id, FALSE)
             ELSE UNCHANGED << log, show_too_old_packet_msg >>
          /\ lastClass' = [lastClass EXCEPT ![trace.id] = "stale"]
          /\ pc' = "stale_poll"
          /\ UNCHANGED passed
     ELSE /\ IF infoLevel /\ ShowEnable(trace.id)
             THEN /\ show_too_old_packet_msg' = SetShow(trace.id, TRUE)
                  /\ log' = Append(log, << trace.id, "enable" >>)
             ELSE UNCHANGED << log, show_too_old_packet_msg >>
          /\ lastClass' = [lastClass EXCEPT ![trace.id] = "fresh"]
          /\ pc' = "resample"
          /\ passed' = passed + 1
  /\ UNCHANGED << streams, recover, infoLevel, selected_streams, subscriptions,
                  time_max, resample_rate, conn_statefile, q, shutdown_event,
                  trace, nrecv, resampled, putres, attempts, enq, dropped,
                  calls, endCause,
                  skipped, shutdownAt, nerrors >>

\* lines 151-155: the shutdown poll of a discarded trace
OnDataStalePoll ==
  /\ pc = "stale_poll"
  /\ IF shutdown_event
     THEN stop_seedlink("signal")
     ELSE /\ pc' = "idle"
          /\ trace' = NoTrace
          /\ resampled' = "none"
          /\ putres' = "none"
          /\ UNCHANGED << calls, conn_statefile, endCause >>
  /\ UNCHANGED << streams, recover, infoLevel, selected_streams, subscriptions,
                  time_max, resample_rate, show_too_old_packet_msg, q,
                  shutdown_event, nrecv, passed, attempts, enq, dropped, log,
                  lastClass,
                  skipped, shutdownAt, nerrors >>

\* a resample step that returns when resampling fails
OnDataResampleDropOnFailure ==
  /\ pc = "resample"
  /\ IF resample_rate # 0
     THEN \/ /\ trace' = [trace EXCEPT !.sampling_rate = resample_rate]
             /\ resampled' = "ok"
             /\ pc' = "put"
          \/ /\ trace' = NoTrace
             /\ resampled' = "none"
             /\ pc' = "idle"
     ELSE /\ trace' = trace
          /\ resampled' = "bypassed"
          /\ pc' = "put"
  /\ UNCHANGED << streams, recover, infoLevel, selected_streams, subscriptions,
                  time_max, resample_rate, show_too_old_packet_msg,
                  conn_statefile, q, shutdown_event, nrecv, putres, passed,
                  attempts, enq, dropped, log, lastClass, calls, endCause,
                  skipped, shutdownAt, nerrors >>

\* lines 167-174: resample in place; a failure is logged and the trace kept
OnDataResample ==
  /\ pc = "resample"
  /\ IF resample_rate # 0
     THEN \/ /\ trace' = [trace EXCEPT !.sampling_rate = resample_rate]
             /\ resampled' = "ok"
          \/ /\ trace' = trace
             /\ resampled' = "failed"
     ELSE /\ trace' = trace
          /\ resampled' = "bypassed"
  /\ pc' = "put"
  /\ UNCHANGED << streams, recover, infoLevel, selected_streams, subscriptions,
                  time_max, resample_rate, show_too_old_packet_msg,
                  conn_statefile, q, shutdown_event, nrecv, putres, passed,
                  attempts, enq, dropped, log, lastClass, calls, endCause,
                  skipped, shutdownAt, nerrors >>

\* a hand-off that honours the shutdown flag before the put
OnDataPutPreempted ==
  /\ pc = "put"
  /\ IF shutdown_event
     THEN /\ stop_seedlink("signal")
          /\ UNCHANGED << q, enq, attempts >>
     ELSE /\ Len(q) < QueueMaxSize
          /\ q' = Append(q, trace)
          /\ enq' = Append(enq, trace.seq)
          /\ putres' = "ok"
          /\ attempts' = attempts + 1
          /\ pc' = "poll"
          /\ UNCHANGED << trace, resampled, calls, conn_statefile, endCause >>
  /\ UNCHANGED << streams, recover, infoLevel, selected_streams, subscriptions,
                  time_max, resample_rate, show_too_old_packet_msg,
                  shutdown_event, nrecv, passed, dropped, log, lastClass,
                  skipped, shutdownAt, nerrors >>

\* line 177: q.put finds room (at once, or within the timeout)
OnDataPut ==
  /\ pc = "put"
  /\ Len(q) < QueueMaxSize
  /\ q' = Append(q, trace)
  /\ enq' = Append(enq, trace.seq)
  /\ putres' = "ok"
  /\ attempts' = attempts + 1
  /\ pc' = "poll"
  /\ UNCHANGED << streams, recover, infoLevel, selected_streams, subscriptions,
                  time_max, resample_rate, show_too_old_packet_msg,
                  conn_statefile, shutdown_event, trace, nrecv, resampled,
                  passed, dropped, log, lastClass, calls, endCause,
                  skipped, shutdownAt, nerrors >>

\* a hand-off that tries again after queue.Full
OnDataPutFullRetry ==
  /\ pc = "put"
  /\ Len(q) >= QueueMaxSize
  /\ dropped' = dropped \cup {trace.seq}
  /\ putres' = "full"
  /\ attempts' = IF trace.seq \in dropped THEN attempts ELSE attempts + 1
  /\ pc' = "put"
  /\ UNCHANGED << streams, recover, infoLevel, selected_streams, subscriptions,
                  time_max, resample_rate, show_too_old_packet_msg,
                  conn_statefile, q, shutdown_event, trace, nrecv, resampled,
                  passed, enq, log, lastClass, calls, endCause,
                  skipped, shutdownAt, nerrors >>

\* lines 178-181: the queue stayed full for the whole timeout: queue.Full
OnDataPutFull ==
  /\ pc = "put"
  /\ Len(q) >= QueueMaxSize
  /\ dropped' = dropped \cup {trace.seq}
  /\ putres' = "full"
  /\ attempts' = attempts + 1
  /\ pc' = "poll"
  /\ UNCHANGED << streams, recover, infoLevel, selected_streams, subscriptions,
                  time_max, resample_rate, show_too_old_packet_msg,
                  conn_statefile, q, shutdown_event, trace, nrecv, resampled,
                  passed, enq, log, lastClass, calls, endCause,
                  skipped, shutdownAt, nerrors >>

\* a hand-off that puts the trace again when the flag is not set
OnDataPollPutsAgain ==
  /\ pc = "poll"
  /\ IF shutdown_event
     THEN stop_seedlink("signal")
     ELSE /\ pc' = "put"
          /\ UNCHANGED << trace, resampled, putres, calls, conn_statefile, endCause >>
  /\ UNCHANGED << streams, recover, infoLevel, selected_streams, subscriptions,
                  time_max, resample_rate, show_too_old_packet_msg, q,
                  shutdown_event, nrecv, passed, attempts, enq, dropped, log,
                  lastClass, skipped, shutdownAt, nerrors >>

\* lines 183-186: the shutdown poll after the hand-off
OnDataPoll ==
  /\ pc = "poll"
  /\ IF shutdown_event
     THEN stop_seedlink("signal")
     ELSE /\ pc' = "idle"
          /\ trace' = NoTrace
          /\ resampled' = "none"
          /\ putres' = "none"
          /\ UNCHANGED << calls, conn_statefile, endCause >>
  /\ UNCHANGED << streams, recover, infoLevel, selected_streams, subscriptions,
                  time_max, resample_rate, show_too_old_packet_msg, q,
                  shutdown_event, nrecv, passed, attempts, enq, dropped, log,
                  lastClass,
                  skipped, shutdownAt, nerrors >>

\* an error callback that shuts the client down
on_seedlink_errorStops ==
  /\ pc = "idle"
  /\ nrecv + nerrors < MaxPackets
  /\ nerrors' = nerrors + 1
  /\ stop_seedlink("error")
  /\ UNCHANGED << streams, recover, infoLevel, selected_streams,
                  subscriptions, time_max, resample_rate,
                  show_too_old_packet_msg, q, shutdown_event, nrecv, passed,
                  attempts, enq, dropped, log, lastClass, skipped, shutdownAt >>

\* lines 188-189: collect() reports an error; it is logged and the loop goes on
on_seedlink_error ==
  /\ pc = "idle"
  /\ nrecv + nerrors < MaxPackets
  /\ nerrors' = nerrors + 1
  /\ UNCHANGED << pc, streams, recover, infoLevel, selected_streams,
                  subscriptions, time_max, resample_rate,
                  show_too_old_packet_msg, conn_statefile, q, shutdown_event,
                  trace, nrecv, resampled, putres, passed, attempts, enq,
                  dropped, log, lastClass, calls, endCause, skipped,
                  shutdownAt >>

\* ----------------------------------------------------------- environment
\* The collaborator closes the connection: run() returns and the
\* orchestrator goes on to shut down.
LoopExit ==
  /\ pc = "idle"
  /\ stop_seedlink("loop_exit")
  /\ UNCHANGED << streams, recover, infoLevel, selected_streams, subscriptions,
                  time_max, resample_rate, show_too_old_packet_msg, q,
                  shutdown_event, nrecv, passed, attempts, enq, dropped, log,
                  lastClass,
                  skipped, shutdownAt, nerrors >>

\* the consumer thread takes a trace off the queue
Consume ==
  /\ q # <<>>
  /\ q' = Tail(q)
  /\ UNCHANGED << pc, streams, recover, infoLevel, selected_streams,
                  subscriptions, time_max, resample_rate,
                  show_too_old_packet_msg, conn_statefile, shutdown_event,
                  trace, nrecv, resampled, putres, passed, attempts, enq,
                  dropped, log, lastClass, calls, endCause,
                  skipped, shutdownAt, nerrors >>

\* the signal handler sets the shutdown flag
SetShutdown ==
  /\ ~shutdown_event
  /\ pc # "init"
  /\ shutdown_event' = TRUE
  /\ shutdownAt' = IF pc \in {"gate", "resample", "put"} THEN "in_flight" ELSE "between"
  /\ UNCHANGED << pc, streams, recover, infoLevel, selected_streams,
                  subscriptions, time_max, resample_rate,
                  show_too_old_packet_msg, conn_statefile, q, trace, nrecv,
                  resampled, putres, passed, attempts, enq, dropped, log,
                  lastClass, calls, endCause,
                  skipped, nerrors >>

Next ==
  \/ Construct
  \/ Configure
  \/ Run
  \/ OnDataSelect
  \/ OnDataGate
  \/ OnDataStalePoll
  \/ OnDataResample
  \/ OnDataPut
  \/ OnDataPutFull
  \/ OnDataPoll
  \/ on_seedlink_error
  \/ LoopExit
  \/ Consume
  \/ SetShutdown

Spec == Init /\ [][Next]_vars

\* The constructor alone, on every list of up to MaxPatterns patterns.
InitSelect ==
  /\ streams \in PatternLists
  /\ InitFields

NextSelect == Construct

SpecSelect == InitSelect /\ [][NextSelect]_vars

\* ------------------------------------------------------------ properties
\* the producer is inside on_data
InOnData == pc \in {"gate", "stale_poll", "resample", "put", "poll"}

\* a call of the trace `calls` with its outcome left out
Kind(c) ==
  CASE c = "recover_state_failed" -> "recover_state"
    [] c = "save_state_failed" -> "save_state"
    [] OTHER -> c

Kinds(cs) == [i \in 1..Len(cs) |-> Kind(cs[i])]

\* C1: every trace in the queue has an id, location code included, that is
\* in selected_streams.
C1_QueueOnlySelected ==
  \A i \in 1..Len(q) : \E k \in 1..Len(selected_streams) : selected_streams[k] = q[i].id

\* C1 witness: the server has sent a trace of a subscribed channel whose
\* location is not selected, and a selected trace is in the queue.
C1_Witness ==
  /\ skipped > 0
  /\ q # <<>>
  /\ \E id \in Deliverable(subscriptions) :
       \A k \in 1..Len(selected_streams) : selected_streams[k] # id

\* C2: a selected trace goes on to resampling and the queue exactly when the
\* threshold is 0 or its latency is at most the threshold; a trace past the
\* threshold is discarded and is never in the queue.
C2_GateForwardsIffFresh ==
  /\ pc \in {"resample", "put", "poll"} =>
       (time_max = 0 \/ trace.latency <= time_max)
  /\ pc = "stale_poll" => (time_max > 0 /\ trace.latency > time_max)
  /\ \A i \in 1..Len(q) : time_max = 0 \/ q[i].latency <= time_max
  /\ (pc = "stopped" /\ putres # "none") =>
       (time_max = 0 \/ trace.latency <= time_max)

\* C2 witness: a trace past the threshold is discarded on a channel whose
\* recorded state was fresh.
C2_Witness ==
  /\ pc = "stale_poll"
  /\ Len(log) >= 2
  /\ log[Len(log)] = << trace.id, "disable" >>
  /\ log[Len(log) - 1] = << trace.id, "enable" >>

\* the messages logged for channel c, in order
RECURSIVE EventsOf(_, _)
EventsOf(c, l) ==
  IF l = <<>> THEN <<>>
  ELSE IF Head(l)[1] = c THEN << Head(l)[2] >> \o EventsOf(c, Tail(l))
       ELSE EventsOf(c, Tail(l))

Alternates(ev) == \A i \in 1..(Len(ev) - 1) : ev[i] # ev[i + 1]

\* what one gate step logs, for the classification of the channel's previous
\* trace (prev) and of this one (cur)
GateStepLogs(c, prev, cur) ==
  /\ (prev = "fresh" /\ cur = "stale") => log' = Append(log, << c, "disable" >>)
  /\ (prev = "stale" /\ cur = "fresh") => log' = Append(log, << c, "enable" >>)
  /\ prev = cur => log' = log

\* C3 as stated: a fresh-to-stale edge of a channel logs one disable message,
\* a stale-to-fresh edge one enable message, a trace classified like the
\* channel's previous one logs nothing, and a channel's messages alternate.
C3_Original ==
  /\ [][pc = "gate" => GateStepLogs(trace.id, lastClass[trace.id], lastClass'[trace.id])]_vars
  /\ [](\A c \in CatalogIds : Alternates(EventsOf(c, log)))

\* C3 amended: the same, when the logger's effective level is INFO or lower;
\* above INFO the gate logs nothing and records nothing.
C3_TransitionsLoggedOnceAtInfo ==
  /\ [][(pc = "gate" /\ infoLevel) =>
          GateStepLogs(trace.id, lastClass[trace.id], lastClass'[trace.id])]_vars
  /\ [][(pc = "gate" /\ ~infoLevel) =>
          (log' = log /\ show_too_old_packet_msg' = show_too_old_packet_msg)]_vars
  /\ [](\A c \in CatalogIds : Alternates(EventsOf(c, log)))

\* C3 witness: one channel has gone fresh, stale and fresh again, with a
\* message for each edge.
C3_Witness ==
  /\ infoLevel
  /\ \E c \in CatalogIds : EventsOf(c, log) = << "enable", "disable", "enable" >>

\* C4: every trace that passed the selection filter and the gate gets its
\* q.put call, whatever the resampling did: the two counts differ only by
\* the trace that is between the gate and the put.
C4_ResampleNeverDrops ==
  passed = attempts + (IF pc \in {"resample", "put"} THEN 1 ELSE 0)

\* C4 witness: a trace whose resampling failed has been put on the queue.
C4_Witness ==
  /\ resampled = "failed"
  /\ putres = "ok"
  /\ q # <<>>
  /\ q[Len(q)] = trace
  /\ trace.sampling_rate = NativeRate

\* C5: a put that ends in queue.Full leaves the queue as it is and goes on
\* to the shutdown poll; the dropped trace is never enqueued; the client
\* stops from on_data only with the shutdown flag set, and otherwise goes
\* back to waiting for the next trace.
C5_TimeoutDropsOnlyThatTrace ==
  /\ [][(pc = "put" /\ putres' = "full") =>
          (q' = q /\ enq' = enq /\ calls' = calls /\ pc' = "poll")]_vars
  /\ [][(pc = "poll" /\ putres = "full" /\ pc' # pc) =>
          (pc' = IF shutdown_event THEN "stopped" ELSE "idle")]_vars
  /\ [](/\ dropped \cap Range(enq) = {}
        /\ \A i \in 1..Len(q) : q[i].seq \notin dropped)

\* C5 witness: after a trace was dropped on queue.Full, a later trace has
\* been enqueued.
C5_Witness ==
  \E d \in dropped : \E i \in 1..Len(enq) : enq[i] > d

\* C6: with recovery, a session that has stopped made its calls in the order
\* restore, disable persist, run, enable persist, persist, close, with one
\* restore and one persist; traces are processed only between run and the
\* shutdown calls.
C6_CheckpointCallOrder ==
  recover =>
    /\ pc = "stopped" =>
         Kinds(calls) = << "set_statefile", "recover_state", "unset_statefile", "run",
                           "set_statefile", "save_state", "close", "exit" >>
    /\ (InOnData \/ (pc = "idle" /\ nrecv > 0)) =>
         Kinds(calls) = << "set_statefile", "recover_state", "unset_statefile", "run" >>
    /\ nrecv > 0 => Len(calls) >= 4

\* C6 witness: a session with recovery has processed traces and stopped.
C6_Witness ==
  /\ recover
  /\ pc = "stopped"
  /\ attempts > 0

\* C7 as stated, for the sessions that on_data itself stops: without
\* recovery the state file is never read and never written.
C7_Original ==
  (~recover /\ endCause # "loop_exit") =>
    \A i \in 1..Len(calls) : calls[i] \notin {"recover_state", "save_state"}

\* on_data returns (or exits) in this step
OnDataEnds ==
  \/ pc = "idle" /\ nrecv' = nrecv + 1 /\ pc' = "idle"
  \/ pc \in {"stale_poll", "poll"} /\ pc' # pc

\* C8 as stated: an on_data invocation that ends with the shutdown flag set
\* ends in stop_seedlink, whatever became of the trace.
C8_Original == [][(OnDataEnds /\ shutdown_event) => pc' = "stopped"]_vars

C10_InFlightTraceCompletes ==
  (pc = "stopped" /\ endCause = "signal" /\ trace # NoTrace
     /\ (time_max = 0 \/ trace.latency <= time_max)) =>
    /\ resampled \in {"ok", "failed", "bypassed"}
    /\ \/ putres = "ok" /\ trace.seq \in Range(enq)
       \/ putres = "full" /\ trace.seq \in dropped

\* C10 witness: the flag was set while a trace was in flight, and the client
\* stopped after enqueuing it.
C10_Witness ==
  /\ pc = "stopped"
  /\ shutdownAt = "in_flight"
  /\ putres = "ok"
  /\ trace.seq \in Range(enq)

\* the shutdown calls have been made on the connection
ShutdownBegun(cs) == \E i \in 1..Len(cs) : cs[i] \in {"close", "exit"}

\* C11: on_data and on_seedlink_error reach stop_seedlink only with the
\* shutdown flag set: a discarded trace and a seedlink error make no call on
\* the connection, and a channel whose last trace was discarded has its next
\* fresh trace forwarded.
C11_OnlyTheFlagStopsTheClient ==
  /\ [][(~ShutdownBegun(calls) /\ ShutdownBegun(calls') /\ endCause' # "loop_exit") =>
          shutdown_event]_vars
  /\ [][nerrors' # nerrors => (pc' = pc /\ calls' = calls /\ endCause' = endCause)]_vars
  /\ [][pc = "gate" => (calls' = calls /\ pc' \in {pc, "stale_poll", "resample"})]_vars
  /\ [][(pc = "stale_poll" /\ ~shutdown_event) => (pc' \in {pc, "idle"} /\ calls' = calls)]_vars
  /\ [][(pc = "gate" /\ lastClass[trace.id] = "stale"
           /\ (time_max = 0 \/ trace.latency <= time_max)) => pc' \in {pc, "resample"}]_vars

\* C11 witness: after a seedlink error and a discarded trace, the next fresh
\* trace of the same channel is in the queue and the connection is open.
C11_Witness ==
  /\ nerrors > 0
  /\ pc = "poll"
  /\ putres = "ok"
  /\ ~ShutdownBegun(calls)
  /\ Len(log) >= 2
  /\ log[Len(log) - 1] = << trace.id, "disable" >>
  /\ log[Len(log)] = << trace.id, "enable" >>

\* C12: when save_state fails in stop_seedlink, the connection is closed
\* next and the process exits.
C12_PersistFailureStillStops ==
  \A i \in 1..Len(calls) :
    calls[i] = "save_state_failed" =>
      /\ pc = "stopped"
      /\ Len(calls) = i + 2
      /\ calls[i + 1] = "close"
      /\ calls[i + 2] = "exit"

\* C12 witness: a session that processed a trace has stopped with a failed
\* save.
C12_Witness ==
  /\ pc = "stopped"
  /\ attempts > 0
  /\ \E i \in 1..Len(calls) : calls[i] = "save_state_failed"

\* the restore of the constructor failed
RestoreFailed == Len(calls) >= 2 /\ calls[2] = "recover_state_failed"

\* C13: after a failed restore the constructor has returned with
\* conn.statefile reset and selected_streams as the patterns give it, and
\* conn.statefile stays unset until stop_seedlink.
C13_RestoreFailureNotFatal ==
  (recover /\ RestoreFailed) =>
    /\ pc # "init"
    /\ Len(calls) >= 3
    /\ calls[3] = "unset_statefile"
    /\ pc # "stopped" => conn_statefile = "None"
    /\ selected_streams = SelectAll([sel |-> <<>>, subs |-> <<>>], streams).sel

\* C13 witness: after a failed restore a trace has been enqueued.
C13_Witness ==
  /\ recover
  /\ RestoreFailed
  /\ enq # <<>>
  /\ pc = "idle"

\* the four expressions of pattern p compile
ValidPattern(p) == \A i \in 1..4 : Compiles(p[i])

\* the ids of the catalog streams that pattern p matches
MatchedBy(p) ==
  { StreamId(ij) :
      ij \in { kl \in CatalogStreams :
                 /\ Match(p[1], Catalog[kl[1]].network)
                 /\ Match(p[2], Catalog[kl[1]].name)
                 /\ Match(p[3], Catalog[kl[1]].channel[kl[2]].seedname)
                 /\ Match(p[4], Catalog[kl[1]].channel[kl[2]].location) } }

\* C14 as stated: after the constructor has resolved a list of patterns that
\* all compile, selected_streams holds every id matched by some pattern once
\* and nothing else.
C14_Original ==
  (pc # "init" /\ \A i \in 1..Len(streams) : ValidPattern(streams[i])) =>
    /\ \A id \in UNION { MatchedBy(streams[i]) : i \in 1..Len(streams) } :
         Cardinality({ k \in 1..Len(selected_streams) : selected_streams[k] = id }) = 1
    /\ \A k \in 1..Len(selected_streams) :
         \E i \in 1..Len(streams) : selected_streams[k] \in MatchedBy(streams[i])

\* C15: a pattern that does not compile adds no stream and no subscription,
\* and the constructor ends with the selected_streams and subscriptions that
\* the list without such patterns gives.
C15_InvalidPatternSkipped ==
  /\ \A i \in 1..Len(streams) :
       ~ValidPattern(streams[i]) =>
         select_stream_re([sel |-> <<>>, subs |-> <<>>], streams[i]) =
           [ok |-> FALSE, acc |-> [sel |-> <<>>, subs |-> <<>>]]
  /\ pc # "init" =>
       LET clean == SelectAll([sel |-> <<>>, subs |-> <<>>], SelectSeq(streams, ValidPattern))
       IN /\ selected_streams = clean.sel
          /\ subscriptions = clean.subs

\* C15 witness: the constructor has selected streams from a list whose first
\* pattern does not compile.
C15_Witness ==
  /\ pc # "init"
  /\ Len(streams) = 2
  /\ ~ValidPattern(streams[1])
  /\ selected_streams # <<>>

\* C16 as stated: the first trace of a channel that reaches the gate logs
\* one message: disable if it is discarded, enable if it is forwarded.
C16_Original ==
  [][(pc = "gate" /\ pc' # "gate" /\ lastClass[trace.id] = "none") =>
       log' = Append(log, << trace.id,
                             IF time_max # 0 /\ trace.latency > time_max
                             THEN "disable" ELSE "enable" >>)]_vars

\* C16 amended: the same, when the logger's effective level is INFO or lower.
C16_FirstClassificationLoggedAtInfo ==
  [][(pc = "gate" /\ pc' # "gate" /\ infoLevel /\ lastClass[trace.id] = "none") =>
       log' = Append(log, << trace.id,
                             IF time_max # 0 /\ trace.latency > time_max
                             THEN "disable" ELSE "enable" >>)]_vars

\* C16 witness: the first trace of two channels has been classified, one
\* discarded and one forwarded, each with its message.
C16_Witness ==
  /\ infoLevel
  /\ Len(log) = 2
  /\ nrecv = 2
  /\ log[1][1] # log[2][1]
  /\ log[1][2] = "disable"
  /\ log[2][2] = "enable"

\* C17: from the return of the constructor until stop_seedlink,
\* conn.statefile is unset and the state file has not been written.
C17_NoCheckpointPathDuringRun ==
  pc \notin {"init", "stopped"} =>
    /\ conn_statefile = "None"
    /\ \A i \in 1..Len(calls) : Kind(calls[i]) # "save_state"
    /\ recover => (Len(calls) >= 3 /\ calls[3] = "unset_statefile")
    /\ \A i \in 1..Len(calls) : (calls[i] = "set_statefile" => i = 1)

\* C17 witness: traces are in flight with recovery on and the restore done.
C17_Witness ==
  /\ recover
  /\ ~RestoreFailed
  /\ pc = "put"
  /\ nrecv > 1

\* C18: the traces enqueued are enqueued in arrival order, each once, and
\* the queue holds the last of them in that order.
C18_EnqueuedInArrivalOrder ==
  /\ \A i \in 1..Len(enq) : enq[i] \in 1..nrecv
  /\ \A i \in 1..Len(enq) : \A j \in 1..Len(enq) : i < j => enq[i] < enq[j]
  /\ Len(q) <= Len(enq)
  /\ \A i \in 1..Len(q) : q[i].seq = enq[Len(enq) - Len(q) + i]

\* C18 witness: two traces have been enqueued around one that was not.
C18_Witness ==
  /\ Len(enq) = 2
  /\ enq[2] > enq[1] + 1

\* C19: once stop_seedlink has made the shutdown calls, no trace is received,
\* classified, resampled or put, and no further call is made on the
\* connection.
C19_StoppedIsFinal ==
  [][ShutdownBegun(calls) =>
       /\ pc = "stopped"
       /\ UNCHANGED << pc, calls, trace, nrecv, skipped, nerrors, passed,
                       attempts, enq, dropped, log, lastClass, resampled,
                       putres, show_too_old_packet_msg, conn_statefile >>]_vars

\* C19 witness: the client has stopped on the flag while the transport had
\* more to deliver, and the consumer has since emptied the queue.
C19_Witness ==
  /\ pc = "stopped"
  /\ endCause = "signal"
  /\ nrecv + nerrors < MaxPackets
  /\ enq # <<>>
  /\ q = <<>>

\* the entry of channel c in dict d, "unset" without one
Entry(d, c) ==
  IF c \in DOMAIN d THEN (IF d[c] THEN "True" ELSE "False") ELSE "unset"

\* C20: selected_streams is not changed after the constructor; a gate step
\* changes the recorded state of no channel but the trace's; an unselected
\* trace changes no recorded state, logs nothing and leaves the queue alone.
C20_OnDataFrame ==
  /\ [][pc # "init" => selected_streams' = selected_streams]_vars
  /\ [][\A c \in CatalogIds :
          (Entry(show_too_old_packet_msg', c) # Entry(show_too_old_packet_msg, c)) =>
            (pc = "gate" /\ c = trace.id)]_vars
  /\ [][skipped' # skipped =>
          /\ show_too_old_packet_msg' = show_too_old_packet_msg
          /\ log' = log
          /\ q' = q
          /\ enq' = enq]_vars

\* C20 witness: two channels have a recorded state and a trace of an
\* unselected location has been returned.
C20_Witness ==
  /\ skipped > 0
  /\ Cardinality(DOMAIN show_too_old_packet_msg) = 2
  /\ q # <<>>
====
